---- MODULE Spec2Model ----
(***************************************************************************)
(* Verification model of the medical-telegram-warehouse pipeline.          *)
(*                                                                         *)
(*   Part 1  DatabaseLoader (src/src/load_to_postgres.py): the upsert of   *)
(*           message files into raw.telegram_messages, one transaction     *)
(*           per batch, by one loader (Spec) or two concurrent loaders     *)
(*           (ConcSpec).                                                   *)
(*   Part 2  YOLODetector.classify_image (src/src/yolo_detect.py): the     *)
(*           category of an image from its detections (ClassifySpec).      *)
(*   Part 3  telegram_data_pipeline (src/pipeline.py): the ops of the job, *)
(*           run by the orchestrator in dependency order (PipelineSpec).   *)
(*   Part 4  new_data_sensor (src/pipeline.py): the evaluations of the     *)
(*           sensor against the message files and its cursor (SensorSpec). *)
(*   Part 5  TelegramScraper (src/src/scraper.py): the passes over the     *)
(*           channels, the message files they write and the loads that     *)
(*           follow (ScraperSpec).                                         *)
(*   Part 6  YOLODetector and YOLOResultsLoader (src/src/yolo_detect.py,   *)
(*           src/src/load_yolo_results.py): the two YOLO ops of the job,   *)
(*           the results file and raw.image_detections (YoloSpec,          *)
(*           YoloLoadSpec).                                                *)
(***************************************************************************)
EXTENDS Integers, Sequences, FiniteSets, TLC

VARIABLES
    files,        \* files[l]: the message files loader l finds, in rglob order
    db,           \* committed rows of raw.telegram_messages
    written,      \* written[l]: row versions of l's open transaction
    seq,          \* the sequence behind the id SERIAL column
    now,          \* the wall clock (datetime.now / CURRENT_TIMESTAMP)
    pc,           \* pc[l]: position of loader l inside run()
    runNo,        \* runNo[l]: how many times run() was started
    batchSize,    \* batch_size argument of the current run
    fileIdx,      \* index into json_files of the current run
    batchData,    \* prepare_batch_data(messages) of the current file
    batchStart,   \* i of "for i in range(0, len(batch_data), batch_size)"
    recIdx,       \* next statement of execute_batch in the current batch
    dbBefore,     \* history: db when the current load_batch call began
    lastLoaded,   \* history: per key, the record of its latest committed load
    runLog,       \* history: batch_size and final db of each ended run
    detections,   \* the detections list handed to classify_image
    category,     \* the category classify_image returned
    cpc,          \* "new" before classify_image is called, "classified" after
    step,         \* step[o]: the orchestrator's state of op o in the run
    result,       \* result[o]: the value op o returned
    reports,      \* the report files written under reports/pipeline
    wall,         \* the wall clock the sensor and the file system read
    mtime,        \* mtime[f]: st_mtime of message file f, 0 when f is absent
    cursor,       \* context.cursor as a time, 0 when it was never set
    sensorPc,     \* "idle", or "scanned" between the rglob loop and the test
    newFiles,     \* new_files of the evaluation in progress
    seen,         \* history: the mtimes the scan in progress read
    lastEval,     \* history: the evaluation that completed last
    fired,        \* history: the last evaluation that returned a RunRequest
    unserved,     \* history: files written since the cursor last advanced
    runQueue,     \* run requests emitted and not yet executed
    sNow,         \* the clock the scraper reads (datetime.now)
    posts,        \* posts[c]: the times of the messages of channel c, by id
    scraperPc,    \* position inside run(): idle, client, channel, iter, ...
    scrapeRuns,   \* how many times run() was called
    daysBack,     \* days_back argument of the current run
    chanIdx,      \* index into self.channels of the current run
    endDate,      \* end_date of the pass in progress
    pos,          \* how many messages iter_messages has yielded, plus one
    collected,    \* the list "messages" of the pass in progress
    saved,        \* saved[<<day, c>>]: content of the file day/c.json
    opStatus,     \* outcome of the op scrape_telegram_data for this run
    loaded,       \* the keys stored in raw.telegram_messages
    scraped,      \* history: channels whose pass of this run has ended
    failedPass,   \* history: channels whose pass of this run raised
    flooded,      \* history: channels whose pass raised FloodWaitError
    passEnd,      \* history: end_date of each channel's pass of this run
    returned,     \* history: what each channel's pass of this run returned
    due,          \* history: keys the passes of the first run were to yield
    interrupted,  \* history: a pass or a load was cut short
    loadedAll,    \* history: a load completed after the latest run
    images,       \* the image files of data/raw/images, in rglob order
    modelLoads,   \* whether YOLO(model_path) can load the model
    yoloPc,       \* position inside the two YOLO ops: idle, model, detect, ...
    imgIdx,       \* index of the image process_images_directory is at
    allResults,   \* all_results of process_images_directory
    csvExists,    \* whether the results file exists
    csvRows,      \* the rows of the results file
    tableColumns, \* the columns of raw.image_detections ({}: no table)
    imageDetections, \* the rows of raw.image_detections
    yoloStatus,   \* outcome of run_yolo_enrichment
    yoloLoadStatus \* outcome of load_yolo_results

loaderVars == <<files, db, written, seq, now, pc, runNo, batchSize,
                fileIdx, batchData, batchStart, recIdx, dbBefore, lastLoaded,
                runLog>>

classifyVars == <<detections, category, cpc>>

pipeVars == <<step, result, reports>>

sensorVars == <<wall, mtime, cursor, sensorPc, newFiles, seen, lastEval,
                fired, unserved, runQueue>>

scraperVars == <<sNow, posts, scraperPc, scrapeRuns, daysBack, chanIdx,
                 endDate, pos, collected, saved, opStatus, loaded, scraped,
                 failedPass, flooded, passEnd, returned, due, interrupted,
                 loadedAll>>

yoloVars == <<images, modelLoads, yoloPc, imgIdx, allResults, csvExists,
              csvRows, tableColumns, imageDetections, yoloStatus,
              yoloLoadStatus>>

vars == <<loaderVars, classifyVars, pipeVars, sensorVars, scraperVars,
          yoloVars>>

\* ------------------------------------------------------------------ bounds
MaxMsgs == 3        \* messages in the data lake of the single-loader runs
MaxRuns == 2        \* runs of DatabaseLoader.run in the single-loader runs
MaxBatch == 2       \* largest batch_size argument tried
MaxConcMsgs == 2    \* messages per loader in the two-loader runs
MaxDet == 3         \* detections in one image

Loaders == {1, 2}

\* ---------------------------------------------------------------- messages
\* A message dictionary as scraper.process_message writes it.  message_id 0
\* stands for a record without message_id (msg.get returns None), which
\* violates the NOT NULL constraint of the table: a malformed record.
Message(id, chan, v) ==
    [message_id   |-> id,
     channel_name |-> chan,
     message_date |-> id,
     message_text |-> IF v = 1 THEN "text1" ELSE "text2",
     has_media    |-> v = 2,
     image_path   |-> IF v = 1 THEN "None" ELSE "data/raw/images/1.jpg",
     views        |-> 10 * v,
     forwards     |-> v,
     scraped_at   |-> 100 + v]

Messages ==
    { Message(1, "chemed", 1), Message(1, "chemed", 2),
      Message(1, "lobelia", 1), Message(0, "chemed", 1) }

WellFormed(m) == m.message_id # 0

KeyOf(r) == <<r.message_id, r.channel_name>>

SeqsUpTo(S, n) == UNION { [1..k -> S] : k \in 1..n }

\* The ways to cut a list of messages into consecutive non-empty files.
RECURSIVE SplitAt(_, _, _)
SplitAt(s, cuts, from) ==
    IF from > Len(s) THEN <<>>
    ELSE LET ends == { c \in cuts : c >= from }
             to   == IF ends = {} THEN Len(s)
                     ELSE CHOOSE c \in ends : \A d \in ends : c <= d
         IN  <<SubSeq(s, from, to)>> \o SplitAt(s, cuts, to + 1)

FileSets(n) ==
    UNION { { SplitAt(s, cuts, 1) : cuts \in SUBSET (1..(Len(s) - 1)) } :
            s \in SeqsUpTo(Messages, n) }

\* ------------------------------------------------- DatabaseLoader: helpers
Min(a, b) == IF a <= b THEN a ELSE b

\* process_json_file: every message of the file gets file_path and
\* processed_at = datetime.now().isoformat() added to its dictionary.
ProcessJsonFile(file, path, t) ==
    [i \in 1..Len(file) |->
        file[i] @@ [file_path |-> path, processed_at |-> t]]

\* prepare_batch_data: the tuple of insert parameters of each message;
\* raw_data = json.dumps(msg) is the whole dictionary, metadata included.
PrepareBatchData(messages) ==
    [i \in 1..Len(messages) |->
        [message_id   |-> messages[i].message_id,
         channel_name |-> messages[i].channel_name,
         message_date |-> messages[i].message_date,
         message_text |-> messages[i].message_text,
         has_media    |-> messages[i].has_media,
         image_path   |-> messages[i].image_path,
         views        |-> messages[i].views,
         forwards     |-> messages[i].forwards,
         scraped_at   |-> messages[i].scraped_at,
         raw_data     |-> messages[i]]]

\* A row violating the table's NOT NULL constraints makes the statement raise.
ViolatesNotNull(vals) == vals.message_id = 0

\* The rows of a table that conflict with vals on unique_message.
Conflicting(table, vals) ==
    { r \in table : /\ r.message_id = vals.message_id
                    /\ r.channel_name = vals.channel_name }

\* DO UPDATE SET with the views assignment left out.
DoUpdateSet_NoViews(r, vals) ==
    [r EXCEPT !.message_text = vals.message_text,
              !.forwards     = vals.forwards,
              !.scraped_at   = vals.scraped_at,
              !.raw_data     = vals.raw_data]

\* The DO UPDATE SET list of insert_sql.
DoUpdateSet(r, vals) ==
    [r EXCEPT !.message_text = vals.message_text,
              !.views        = vals.views,
              !.forwards     = vals.forwards,
              !.scraped_at   = vals.scraped_at,
              !.raw_data     = vals.raw_data]

\* An upsert written as delete-and-insert: the conflicting row is replaced by
\* a fresh row, with a new id and created_at.
InsertSql_Replace(table, vals, t, id) ==
    { r \in table : ~(/\ r.message_id = vals.message_id
                      /\ r.channel_name = vals.channel_name) }
    \cup {[id           |-> id,
           message_id   |-> vals.message_id,
           channel_name |-> vals.channel_name,
           message_date |-> vals.message_date,
           message_text |-> vals.message_text,
           has_media    |-> vals.has_media,
           image_path   |-> vals.image_path,
           views        |-> vals.views,
           forwards     |-> vals.forwards,
           scraped_at   |-> vals.scraped_at,
           raw_data     |-> vals.raw_data,
           created_at   |-> t]}

\* insert_sql: INSERT ... ON CONFLICT (message_id, channel_name) DO UPDATE,
\* executed at time t with id drawn from the sequence.
InsertSql(table, vals, t, id) ==
    IF Conflicting(table, vals) = {}
    THEN table \cup
         {[id           |-> id,
           message_id   |-> vals.message_id,
           channel_name |-> vals.channel_name,
           message_date |-> vals.message_date,
           message_text |-> vals.message_text,
           has_media    |-> vals.has_media,
           image_path   |-> vals.image_path,
           views        |-> vals.views,
           forwards     |-> vals.forwards,
           scraped_at   |-> vals.scraped_at,
           raw_data     |-> vals.raw_data,
           created_at   |-> t]}
    ELSE (table \ Conflicting(table, vals))
         \cup { DoUpdateSet(r, vals) : r \in Conflicting(table, vals) }

Keys(table) == { KeyOf(r) : r \in table }

\* What a statement of l's transaction sees (READ COMMITTED): the committed
\* rows, with the rows l has written in place of their committed versions.
View(l) ==
    { r \in db : KeyOf(r) \notin Keys(written[l]) } \cup written[l]

\* batch = batch_data[i:i + batch_size]
Batch(l) ==
    SubSeq(batchData[l], batchStart[l],
           Min(batchStart[l] + batchSize[l] - 1, Len(batchData[l])))

Other(l) == CHOOSE o \in Loaders : o # l

\* The statement l is about to execute needs a row (or index entry) that the
\* other loader's open transaction has written: it waits for that transaction.
Blocked(l) ==
    /\ pc[l] = "exec"
    /\ recIdx[l] <= Len(Batch(l))
    /\ ~ViolatesNotNull(Batch(l)[recIdx[l]])
    /\ KeyOf(Batch(l)[recIdx[l]]) \in Keys(written[Other(l)])

\* A rollback that leaves the statements executed so far in the table, as
\* with connection.autocommit = True.
Rollback_KeepsWrites(l) == View(l)

\* connection.rollback(): the committed table once the transaction is undone.
Rollback(l) == db

\* connection.commit(): the committed table once l's writes are published.
CommitTxn(l) == View(l)

AllKeys == { KeyOf(m) : m \in Messages }

\* history: the latest record of each key among the records of a batch
LatestOf(batch, old) ==
    [k \in AllKeys |->
        LET at == { i \in 1..Len(batch) : KeyOf(batch[i]) = k }
        IN  IF at = {} THEN old[k]
            ELSE <<batch[CHOOSE i \in at : \A j \in at : j <= i]>>]

\* ------------------------------------------------- DatabaseLoader: actions
LoaderInit(fs) ==
    /\ files = fs
    /\ db = {}
    /\ written = [l \in Loaders |-> {}]
    /\ seq = 0
    /\ now = 0
    /\ pc = [l \in Loaders |-> "idle"]
    /\ runNo = [l \in Loaders |-> 0]
    /\ batchSize = [l \in Loaders |-> 1]
    /\ fileIdx = [l \in Loaders |-> 1]
    /\ batchData = [l \in Loaders |-> <<>>]
    /\ batchStart = [l \in Loaders |-> 1]
    /\ recIdx = [l \in Loaders |-> 1]
    /\ dbBefore = [l \in Loaders |-> {}]
    /\ lastLoaded = [k \in AllKeys |-> <<>>]
    /\ runLog = [l \in Loaders |-> <<>>]

\* run(batch_size): connect, create_schema_and_table (the table exists or is
\* created empty), find_json_files.
RunStart(l, maxRuns) ==
    /\ pc[l] \in {"idle", "done", "failed"}
    /\ runNo[l] < maxRuns
    /\ \E bs \in 1..MaxBatch : batchSize' = [batchSize EXCEPT ![l] = bs]
    /\ runNo' = [runNo EXCEPT ![l] = @ + 1]
    /\ fileIdx' = [fileIdx EXCEPT ![l] = 1]
    /\ batchData' = [batchData EXCEPT ![l] = <<>>]
    /\ batchStart' = [batchStart EXCEPT ![l] = 1]
    /\ recIdx' = [recIdx EXCEPT ![l] = 1]
    /\ pc' = [pc EXCEPT ![l] = "file"]
    /\ UNCHANGED <<files, db, written, seq, now, dbBefore, lastLoaded, runLog>>
    /\ UNCHANGED <<classifyVars, pipeVars, sensorVars, scraperVars,
                   yoloVars>>

\* for file_path in json_files: process_json_file, prepare_batch_data
ProcessFile(l) ==
    /\ pc[l] = "file"
    /\ fileIdx[l] <= Len(files[l])
    /\ now' = now + 1
    /\ batchData' = [batchData EXCEPT ![l] =
           PrepareBatchData(
               ProcessJsonFile(files[l][fileIdx[l]], fileIdx[l], now'))]
    /\ batchStart' = [batchStart EXCEPT ![l] = 1]
    /\ pc' = [pc EXCEPT ![l] = "batch"]
    /\ UNCHANGED <<files, db, written, seq, runNo, batchSize, fileIdx, recIdx,
                   dbBefore, lastLoaded, runLog>>
    /\ UNCHANGED <<classifyVars, pipeVars, sensorVars, scraperVars,
                   yoloVars>>

\* for i in range(0, len(batch_data), batch_size): load_batch(batch) begins,
\* or the file is finished and the loop goes on to the next file.
NextBatch(l) ==
    /\ pc[l] = "batch"
    /\ IF batchStart[l] <= Len(batchData[l])
       THEN /\ pc' = [pc EXCEPT ![l] = "exec"]
            /\ recIdx' = [recIdx EXCEPT ![l] = 1]
            /\ dbBefore' = [dbBefore EXCEPT ![l] = db]
            /\ UNCHANGED fileIdx
       ELSE /\ pc' = [pc EXCEPT ![l] = "file"]
            /\ fileIdx' = [fileIdx EXCEPT ![l] = @ + 1]
            /\ UNCHANGED <<recIdx, dbBefore>>
    /\ UNCHANGED <<files, db, written, seq, now, runNo, batchSize, batchData,
                   batchStart, lastLoaded, runLog>>
    /\ UNCHANGED <<classifyVars, pipeVars, sensorVars, scraperVars,
                   yoloVars>>

\* execute_batch: one statement of the batch, inside the open transaction.
ExecRecord(l) ==
    /\ pc[l] = "exec"
    /\ recIdx[l] <= Len(Batch(l))
    /\ ~ViolatesNotNull(Batch(l)[recIdx[l]])
    /\ ~Blocked(l)
    /\ written' = [written EXCEPT ![l] =
           { r \in InsertSql(View(l), Batch(l)[recIdx[l]], now, seq + 1) :
               KeyOf(r) \in Keys(written[l])
                            \cup {KeyOf(Batch(l)[recIdx[l]])} }]
    /\ seq' = seq + 1
    /\ recIdx' = [recIdx EXCEPT ![l] = @ + 1]
    /\ UNCHANGED <<files, db, now, pc, runNo, batchSize, fileIdx, batchData,
                   batchStart, dbBefore, lastLoaded, runLog>>
    /\ UNCHANGED <<classifyVars, pipeVars, sensorVars, scraperVars,
                   yoloVars>>

\* load_batch's except branch: rollback and re-raise; run re-raises and
\* disconnects, so the run ends here.
Raise(l) ==
    /\ db' = Rollback(l)
    /\ written' = [written EXCEPT ![l] = {}]
    /\ pc' = [pc EXCEPT ![l] = "failed"]
    /\ runLog' = [runLog EXCEPT ![l] =
           Append(@, [batch_size |-> batchSize[l], db |-> db'])]
    /\ UNCHANGED <<files, seq, now, runNo, batchSize, fileIdx, batchData,
                   batchStart, recIdx, dbBefore, lastLoaded>>
    /\ UNCHANGED <<classifyVars, pipeVars, sensorVars, scraperVars,
                   yoloVars>>

\* A statement violates a constraint of the table: execute_batch raises.
ExecRaise(l) ==
    /\ pc[l] = "exec"
    /\ recIdx[l] <= Len(Batch(l))
    /\ ViolatesNotNull(Batch(l)[recIdx[l]])
    /\ Raise(l)

\* Both transactions wait for a row the other has written: the database
\* detects the deadlock and makes the statement of one of them raise.
DeadlockRaise(l) ==
    /\ Blocked(l)
    /\ Blocked(Other(l))
    /\ Raise(l)

\* connection.commit() after the last statement; load_batch returns.
Commit(l) ==
    /\ pc[l] = "exec"
    /\ recIdx[l] > Len(Batch(l))
    /\ db' = CommitTxn(l)
    /\ written' = [written EXCEPT ![l] = {}]
    /\ lastLoaded' = LatestOf(Batch(l), lastLoaded)
    /\ batchStart' = [batchStart EXCEPT ![l] = @ + batchSize[l]]
    /\ pc' = [pc EXCEPT ![l] = "batch"]
    /\ UNCHANGED <<files, seq, now, runNo, batchSize, fileIdx, batchData,
                   recIdx, dbBefore, runLog>>
    /\ UNCHANGED <<classifyVars, pipeVars, sensorVars, scraperVars,
                   yoloVars>>

\* All files processed: run logs the total and disconnects.
RunEnd(l) ==
    /\ pc[l] = "file"
    /\ fileIdx[l] > Len(files[l])
    /\ pc' = [pc EXCEPT ![l] = "done"]
    /\ runLog' = [runLog EXCEPT ![l] =
           Append(@, [batch_size |-> batchSize[l], db |-> db])]
    /\ UNCHANGED <<files, db, written, seq, now, runNo, batchSize, fileIdx,
                   batchData, batchStart, recIdx, dbBefore, lastLoaded>>
    /\ UNCHANGED <<classifyVars, pipeVars, sensorVars, scraperVars,
                   yoloVars>>

\* ------------------------------------------------------- classify_image
\* class names of the detection model that the rules look at, and one more
Labels == {"bottle", "cup", "bowl", "person", "scissors", "knife", "book"}

Confidences == {50, 90}

Detection(cls, conf) == [class_name |-> cls, confidence |-> conf]

\* classify_image with the medical tools tested before the person.
ClassifyImage_ToolsFirst(dets) ==
    IF dets = <<>> THEN "other"
    ELSE
    LET detected_classes_set == { dets[i].class_name : i \in 1..Len(dets) }
        has_medical_container ==
            \E cls \in detected_classes_set : cls \in {"bottle", "cup", "bowl"}
        has_person == "person" \in detected_classes_set
        has_medical_tool ==
            \E cls \in detected_classes_set : cls \in {"scissors", "knife"}
    IN  IF has_person /\ has_medical_container THEN "promotional"
        ELSE IF has_medical_container /\ ~has_person THEN "product_display"
        ELSE IF has_medical_tool THEN "medical_tools"
        ELSE IF has_person /\ ~has_medical_container THEN "lifestyle"
        ELSE "other"

\* YOLODetector.classify_image
ClassifyImage(dets) ==
    IF dets = <<>> THEN "other"
    ELSE
    LET detected_classes_set == { dets[i].class_name : i \in 1..Len(dets) }
        has_medical_container ==
            \E cls \in detected_classes_set : cls \in {"bottle", "cup", "bowl"}
        has_person == "person" \in detected_classes_set
        has_medical_tool ==
            \E cls \in detected_classes_set : cls \in {"scissors", "knife"}
    IN  IF has_person /\ has_medical_container THEN "promotional"
        ELSE IF has_medical_container /\ ~has_person THEN "product_display"
        ELSE IF has_person /\ ~has_medical_container THEN "lifestyle"
        ELSE IF has_medical_tool THEN "medical_tools"
        ELSE "other"

ClassifyIdle ==
    /\ detections = <<>>
    /\ category = ""
    /\ cpc = "idle"

\* detect_objects: image_category = self.classify_image(detections)
Classify ==
    /\ cpc = "new"
    /\ category' = ClassifyImage(detections)
    /\ cpc' = "classified"
    /\ UNCHANGED detections
    /\ UNCHANGED <<loaderVars, pipeVars, sensorVars, scraperVars,
                   yoloVars>>

\* ------------------------------------------------ telegram_data_pipeline
Ops == {"init_database", "scrape_telegram_data", "load_raw_to_postgres",
        "run_dbt_transformations", "run_yolo_enrichment", "load_yolo_results",
        "run_analytics_api", "generate_report"}

\* the arguments of generate_report, in the order of the call
ReportArgs == <<"init_database", "scrape_telegram_data",
                "load_raw_to_postgres", "run_dbt_transformations",
                "run_yolo_enrichment", "load_yolo_results",
                "run_analytics_api">>

\* A job whose report waits for its last argument only.
Deps_ReportAfterApi(o) ==
    IF o = "load_yolo_results" THEN {"run_yolo_enrichment"}
    ELSE IF o = "generate_report" THEN {"run_analytics_api"}
    ELSE {}

\* A job in which the API step waits for the enrichment step.
Deps_ApiAfterYolo(o) ==
    IF o \in {"load_yolo_results", "run_analytics_api"}
    THEN {"run_yolo_enrichment"}
    ELSE IF o = "generate_report"
         THEN { ReportArgs[i] : i \in 1..Len(ReportArgs) }
    ELSE {}

\* The dependencies of the job: an op depends on the ops whose outputs it is
\* called with in the body of telegram_data_pipeline, and on no other.
Deps(o) ==
    IF o = "load_yolo_results" THEN {"run_yolo_enrichment"}
    ELSE IF o = "generate_report"
         THEN { ReportArgs[i] : i \in 1..Len(ReportArgs) }
    ELSE {}

Terminal(o) == step[o] \in {"succeeded", "failed", "upstream_failed"}

NoResult == [is_dict |-> FALSE, status |-> "", reason |-> ""]

StatusDict(st, why) == [is_dict |-> TRUE, status |-> st, reason |-> why]

\* What the body of op o can return, given the outputs of its inputs.
Returns(o) ==
    IF o = "init_database"
    THEN {[is_dict |-> FALSE, status |-> "", reason |-> ""]}
    ELSE IF o = "run_yolo_enrichment"
    THEN {StatusDict("skipped", "No images found"),
          StatusDict("success", ""),
          StatusDict("skipped", "No valid images processed")}
    ELSE IF o = "load_yolo_results"
    THEN IF result["run_yolo_enrichment"].status # "success"
         THEN {StatusDict("skipped", result["run_yolo_enrichment"].reason)}
         ELSE {StatusDict("success", "")}
    ELSE IF o = "run_analytics_api"
    THEN {StatusDict("skipped", "FastAPI dependencies not installed"),
          StatusDict("ready", "")}
    ELSE {StatusDict("success", "")}

\* Whether the body of op o can raise, given the outputs of its inputs.
CanRaise(o) ==
    IF o = "load_yolo_results"
    THEN result["run_yolo_enrichment"].status = "success"
    ELSE TRUE

\* generate_report: the steps list, one entry per dictionary argument
ReportSteps(args) ==
    SelectSeq([i \in 1..Len(args) |->
                   [step    |-> i,
                    is_dict |-> result[args[i]].is_dict,
                    status  |-> result[args[i]].status]],
              LAMBDA e : e.is_dict)

\* A summary that does not count the skipped steps.
SuccessfulSteps_NoSkipped(steps) ==
    SelectSeq(steps, LAMBDA e : e.status \in {"success", "ready"})

\* A summary that counts the steps of status success only.
SuccessfulSteps_SuccessOnly(steps) ==
    SelectSeq(steps, LAMBDA e : e.status = "success")

SuccessfulSteps(steps) ==
    SelectSeq(steps, LAMBDA e : e.status \in {"success", "ready", "skipped"})

\* generate_report: the report dictionary
Report(args) ==
    [total_steps      |-> Len(ReportSteps(args)),
     successful_steps |-> Len(SuccessfulSteps(ReportSteps(args))),
     all_successful   |-> Len(SuccessfulSteps(ReportSteps(args)))
                              = Len(ReportSteps(args)),
     steps            |-> ReportSteps(args)]

PipelineInit ==
    /\ step = [o \in Ops |-> "not_started"]
    /\ result = [o \in Ops |-> NoResult]
    /\ reports = <<>>

\* The orchestrator starts an op once every op it depends on has succeeded.
StartOp(o) ==
    /\ step[o] = "not_started"
    /\ \A d \in Deps(o) : step[d] = "succeeded"
    /\ step' = [step EXCEPT ![o] = "started"]
    /\ UNCHANGED <<result, reports>>
    /\ UNCHANGED <<loaderVars, classifyVars, sensorVars, scraperVars,
                   yoloVars>>

\* The body of an op other than generate_report returns.
ReturnOp(o) ==
    /\ o # "generate_report"
    /\ step[o] = "started"
    /\ \E r \in Returns(o) : result' = [result EXCEPT ![o] = r]
    /\ step' = [step EXCEPT ![o] = "succeeded"]
    /\ UNCHANGED reports
    /\ UNCHANGED <<loaderVars, classifyVars, sensorVars, scraperVars,
                   yoloVars>>

\* The body of an op raises (every body logs and re-raises).
RaiseOp(o) ==
    /\ step[o] = "started"
    /\ CanRaise(o)
    /\ step' = [step EXCEPT ![o] = "failed"]
    /\ UNCHANGED <<result, reports>>
    /\ UNCHANGED <<loaderVars, classifyVars, sensorVars, scraperVars,
                   yoloVars>>

\* generate_report builds the report, writes the report file and returns it.
GenerateReport ==
    /\ step["generate_report"] = "started"
    /\ reports' = Append(reports, Report(ReportArgs))
    /\ result' = [result EXCEPT !["generate_report"] = StatusDict("", "")]
    /\ step' = [step EXCEPT !["generate_report"] = "succeeded"]
    /\ UNCHANGED <<loaderVars, classifyVars, sensorVars, scraperVars,
                   yoloVars>>

\* An op with a failed (or not executed) input is not executed.
SkipOp(o) ==
    /\ step[o] = "not_started"
    /\ \E d \in Deps(o) : step[d] \in {"failed", "upstream_failed"}
    /\ step' = [step EXCEPT ![o] = "upstream_failed"]
    /\ UNCHANGED <<result, reports>>
    /\ UNCHANGED <<loaderVars, classifyVars, sensorVars, scraperVars,
                   yoloVars>>

\* ------------------------------------------------------- new_data_sensor
MaxClock == 3

\* the *.json files under data/raw/telegram_messages (date/channel.json)
MsgFiles == {"2024-01-01/chemed.json", "2024-01-01/lobelia4cosmetics.json"}

NoEval == [before |-> 0, after |-> 0, seen |-> [f \in MsgFiles |-> 0],
           new |-> {}, emitted |-> 0]

\* A sensor that also counts the files written at the time of the cursor.
NewFiles_AtOrAfter(ms, cur) == { f \in MsgFiles : ms[f] > 0 /\ ms[f] >= cur }

\* new_files: the files whose modification time is later than
\* "context.cursor or 1970-01-01" (an absent file has no time: 0; a cursor
\* never set is the epoch: 0; isoformat and fromisoformat keep the time to
\* the microsecond, the unit of wall).
NewFiles(ms, cur) == { f \in MsgFiles : ms[f] > 0 /\ ms[f] > cur }

\* A sensor that never calls update_cursor.
CursorAfter_Keep(cur, t, new) == cur

\* the cursor after the evaluation: update_cursor(datetime.now()) when
\* new_files is not empty
CursorAfter(cur, t, new) == IF new # {} THEN t ELSE cur

SensorIdle ==
    /\ wall = 1
    /\ mtime = [f \in MsgFiles |-> 0]
    /\ cursor = 0
    /\ sensorPc = "idle"
    /\ newFiles = {}
    /\ seen = [f \in MsgFiles |-> 0]
    /\ lastEval = NoEval
    /\ fired = NoEval
    /\ unserved = {}
    /\ runQueue = 0

\* Time passes.
Tick ==
    /\ wall < MaxClock
    /\ wall' = wall + 1
    /\ UNCHANGED <<mtime, cursor, sensorPc, newFiles, seen, lastEval, fired,
                   unserved, runQueue>>
    /\ UNCHANGED <<loaderVars, classifyVars, pipeVars, scraperVars,
                   yoloVars>>

\* A message file is written (created or rewritten): its modification time
\* is the time of the write.
WriteFile(f) ==
    /\ mtime' = [mtime EXCEPT ![f] = wall]
    /\ unserved' = unserved \cup {f}
    /\ UNCHANGED <<wall, cursor, sensorPc, newFiles, seen, lastEval, fired,
                   runQueue>>
    /\ UNCHANGED <<loaderVars, classifyVars, pipeVars, scraperVars,
                   yoloVars>>

\* The loop over data_dir.rglob("*.json"): stat each file, collect new_files.
\* (A missing data_dir returns a SkipReason, as a directory without files.)
SensorScan ==
    /\ sensorPc = "idle"
    /\ newFiles' = NewFiles(mtime, cursor)
    /\ seen' = mtime
    /\ sensorPc' = "scanned"
    /\ UNCHANGED <<wall, mtime, cursor, lastEval, fired, unserved, runQueue>>
    /\ UNCHANGED <<loaderVars, classifyVars, pipeVars, scraperVars,
                   yoloVars>>

\* "if new_files": update the cursor to datetime.now() and return a
\* RunRequest, else return a SkipReason.
SensorDecide ==
    /\ sensorPc = "scanned"
    /\ cursor' = CursorAfter(cursor, wall, newFiles)
    /\ lastEval' = [before |-> cursor, after |-> cursor', seen |-> seen,
                    new |-> newFiles,
                    emitted |-> IF newFiles # {} THEN 1 ELSE 0]
    /\ fired' = IF newFiles # {} THEN lastEval' ELSE fired
    /\ unserved' = IF newFiles # {} THEN {} ELSE unserved
    /\ runQueue' = IF newFiles # {} THEN runQueue + 1 ELSE runQueue
    /\ sensorPc' = "idle"
    /\ newFiles' = {}
    /\ UNCHANGED <<wall, mtime, seen>>
    /\ UNCHANGED <<loaderVars, classifyVars, pipeVars, scraperVars,
                   yoloVars>>

\* A run the sensor requested is executed: its scrape step saves the
\* messages its passes returned, which writes (creates or overwrites) the
\* message file of each date and channel it has messages for, possibly none.
\* The files are written by the pipeline itself, not from outside.
TriggeredScrape ==
    /\ runQueue > 0
    /\ runQueue' = runQueue - 1
    /\ \E W \in SUBSET MsgFiles :
          mtime' = [f \in MsgFiles |-> IF f \in W THEN wall ELSE mtime[f]]
    /\ UNCHANGED <<wall, cursor, sensorPc, newFiles, seen, lastEval, fired,
                   unserved>>
    /\ UNCHANGED <<loaderVars, classifyVars, pipeVars, scraperVars,
                   yoloVars>>

\* ------------------------------------------------------- TelegramScraper
MaxPosts == 2        \* messages posted to the channels, in all
MaxScrapeRuns == 2   \* calls of TelegramScraper.run

\* clock readings per calendar day: message_date is a time, the file of a
\* message is that of the date() of its message_date
TicksPerDay == 2

\* self.channels (its first two entries)
Channels == <<"chemed", "lobelia4cosmetics">>

ChannelSet == { Channels[i] : i \in 1..Len(Channels) }

\* days_back: the default of scrape_telegram_data and what the sensor asks
DaysBackArgs == {1, 7}

DayOf(t) == t \div TicksPerDay

Days == { DayOf(t) : t \in 1..MaxClock }

\* msg_data, as far as the key and the date go
Post(i, c, t) == [message_id |-> i, channel_name |-> c, message_date |-> t]

ChannelMessages(ps, c) == [i \in 1..Len(ps[c]) |-> Post(i, c, ps[c][i])]

\* client.iter_messages(entity, offset_date=offset, reverse=True): with
\* reverse the messages come oldest first and offset_date is the exclusive
\* lower end: the messages dated after offset, in ascending order.
IterMessages(ps, c, offset) ==
    SelectSeq(ChannelMessages(ps, c), LAMBDA m : m.message_date > offset)

OnDay(msgs, d) == SelectSeq(msgs, LAMBDA m : DayOf(m.message_date) = d)

\* save_messages_json: the messages grouped by date, each day's list
\* written over the file day/channel.json; nothing when the list is empty.
SaveMessagesJson(sv, msgs, c) ==
    [k \in DOMAIN sv |->
        IF k[2] = c /\ OnDay(msgs, k[1]) # <<>> THEN OnDay(msgs, k[1])
        ELSE sv[k]]

KeysOf(msgs) ==
    { <<msgs[i].message_id, msgs[i].channel_name>> : i \in 1..Len(msgs) }

SavedKeys(sv) == UNION { KeysOf(sv[k]) : k \in DOMAIN sv }

\* A scraper whose run ends at the first channel that fails.
AfterFailure_Abort(i) == Len(Channels) + 1

\* scrape_channel logs the exception and returns []: the loop of
\* scrape_all_channels goes on with the next channel.
AfterFailure(i) == i + 1

Nondecreasing(s) == \A i \in 1..(Len(s) - 1) : s[i] <= s[i + 1]

Histories ==
    { s \in {<<>>} \cup SeqsUpTo(1..MaxClock, MaxPosts) : Nondecreasing(s) }

ScraperReset(ps) ==
    /\ sNow = 1
    /\ posts = ps
    /\ scraperPc = "idle"
    /\ scrapeRuns = 0
    /\ daysBack = 7
    /\ chanIdx = 1
    /\ endDate = 0
    /\ pos = 1
    /\ collected = <<>>
    /\ saved = [k \in Days \X ChannelSet |-> <<>>]
    /\ opStatus = ""
    /\ loaded = {}
    /\ scraped = {}
    /\ failedPass = {}
    /\ flooded = {}
    /\ passEnd = [c \in ChannelSet |-> 0]
    /\ returned = [c \in ChannelSet |-> <<>>]
    /\ due = {}
    /\ interrupted = FALSE
    /\ loadedAll = FALSE

ScraperIdle == ScraperReset([c \in ChannelSet |-> <<>>])

\* scrape_telegram_data calls scraper.run(days_back), at any time from the
\* end of the run before.
ScrapeRun ==
    /\ scraperPc \in {"idle", "done", "raised"}
    /\ scrapeRuns < MaxScrapeRuns
    /\ scrapeRuns' = scrapeRuns + 1
    /\ \E t \in sNow..MaxClock : sNow' = t
    /\ \E d \in DaysBackArgs : daysBack' = d
    /\ scraperPc' = "client"
    /\ chanIdx' = 1
    /\ opStatus' = "running"
    /\ scraped' = {}
    /\ failedPass' = {}
    /\ flooded' = {}
    /\ passEnd' = [c \in ChannelSet |-> 0]
    /\ returned' = [c \in ChannelSet |-> <<>>]
    /\ loadedAll' = FALSE
    /\ UNCHANGED <<posts, endDate, pos, collected, saved, loaded, due,
                   interrupted>>
    /\ UNCHANGED <<loaderVars, classifyVars, pipeVars, sensorVars,
                   yoloVars>>
\* init_client returns.
InitClient ==
    /\ scraperPc = "client"
    /\ scraperPc' = "channel"
    /\ UNCHANGED <<sNow, posts, scrapeRuns, daysBack, chanIdx, endDate, pos,
                   collected, saved, opStatus, loaded, scraped, failedPass,
                   flooded, passEnd, returned, due, interrupted, loadedAll>>
    /\ UNCHANGED <<loaderVars, classifyVars, pipeVars, sensorVars,
                   yoloVars>>
\* init_client raises: run() raises and so does the op.
InitClientRaise ==
    /\ scraperPc = "client"
    /\ scraperPc' = "raised"
    /\ opStatus' = "failed"
    /\ UNCHANGED <<sNow, posts, scrapeRuns, daysBack, chanIdx, endDate, pos,
                   collected, saved, loaded, scraped, failedPass, flooded,
                   passEnd, returned, due, interrupted, loadedAll>>
    /\ UNCHANGED <<loaderVars, classifyVars, pipeVars, sensorVars,
                   yoloVars>>
\* scrape_channel begins for the next channel: end_date = now.
PassStart ==
    /\ scraperPc = "channel"
    /\ chanIdx <= Len(Channels)
    /\ scraperPc' = "iter"
    /\ endDate' = sNow
    /\ pos' = 1
    /\ collected' = <<>>
    /\ passEnd' = [passEnd EXCEPT ![Channels[chanIdx]] = sNow]
    /\ due' = IF scrapeRuns = 1
              THEN due \cup KeysOf(IterMessages(posts, Channels[chanIdx], sNow))
              ELSE due
    /\ UNCHANGED <<sNow, posts, scrapeRuns, daysBack, chanIdx, saved,
                   opStatus, loaded, scraped, failedPass, flooded, returned,
                   interrupted, loadedAll>>
    /\ UNCHANGED <<loaderVars, classifyVars, pipeVars, sensorVars,
                   yoloVars>>
\* scrape_channel returns msgs: they are saved and the loop goes on.
PassEnds(c, msgs) ==
    /\ saved' = SaveMessagesJson(saved, msgs, c)
    /\ returned' = [returned EXCEPT ![c] = msgs]
    /\ scraped' = scraped \cup {c}
    /\ chanIdx' = chanIdx + 1
    /\ scraperPc' = "channel"

\* One round of the "async for" loop: the next message is appended, or, if
\* it is dated before start_date, the loop is left.
IterStep ==
    /\ scraperPc = "iter"
    /\ pos <= Len(IterMessages(posts, Channels[chanIdx], endDate))
    /\ LET m == IterMessages(posts, Channels[chanIdx], endDate)[pos]
       IN  IF m.message_date < endDate - daysBack * TicksPerDay
           THEN /\ PassEnds(Channels[chanIdx], collected)
                /\ UNCHANGED <<pos, collected>>
           ELSE /\ collected' = Append(collected, m)
                /\ pos' = pos + 1
                /\ UNCHANGED <<scraperPc, chanIdx, saved, scraped, returned>>
    /\ UNCHANGED <<sNow, posts, scrapeRuns, daysBack, endDate, opStatus,
                   loaded, failedPass, flooded, passEnd, due, interrupted,
                   loadedAll>>
    /\ UNCHANGED <<loaderVars, classifyVars, pipeVars, sensorVars,
                   yoloVars>>
\* iter_messages is exhausted: scrape_channel returns the list.
PassReturn ==
    /\ scraperPc = "iter"
    /\ pos > Len(IterMessages(posts, Channels[chanIdx], endDate))
    /\ PassEnds(Channels[chanIdx], collected)
    /\ UNCHANGED <<sNow, posts, scrapeRuns, daysBack, endDate, pos, collected,
                   opStatus, loaded, failedPass, flooded, passEnd, due,
                   interrupted, loadedAll>>
    /\ UNCHANGED <<loaderVars, classifyVars, pipeVars, sensorVars,
                   yoloVars>>
\* get_entity or iter_messages raises (kind "flood": FloodWaitError, else
\* any other error): "except Exception" of scrape_channel logs it and
\* returns [], the list built so far is dropped, nothing is saved.  (The
\* "except FloodWaitError" of scrape_all_channels is never reached.)
PassRaise(kind) ==
    /\ scraperPc = "iter"
    /\ returned' = [returned EXCEPT ![Channels[chanIdx]] = <<>>]
    /\ scraped' = scraped \cup {Channels[chanIdx]}
    /\ failedPass' = failedPass \cup {Channels[chanIdx]}
    /\ flooded' = IF kind = "flood" THEN flooded \cup {Channels[chanIdx]}
                  ELSE flooded
    /\ interrupted' = (interrupted \/ scrapeRuns = 1)
    /\ chanIdx' = AfterFailure(chanIdx)
    /\ scraperPc' = "channel"
    /\ UNCHANGED <<sNow, posts, scrapeRuns, daysBack, endDate, pos, collected,
                   saved, opStatus, loaded, passEnd, due, loadedAll>>
    /\ UNCHANGED <<loaderVars, classifyVars, pipeVars, sensorVars,
                   yoloVars>>
\* The loop over self.channels is over: run() returns and the op returns
\* its dictionary of status success.
RunReturn ==
    /\ scraperPc = "channel"
    /\ chanIdx > Len(Channels)
    /\ scraperPc' = "done"
    /\ opStatus' = "success"
    /\ UNCHANGED <<sNow, posts, scrapeRuns, daysBack, chanIdx, endDate, pos,
                   collected, saved, loaded, scraped, failedPass, flooded,
                   passEnd, returned, due, interrupted, loadedAll>>
    /\ UNCHANGED <<loaderVars, classifyVars, pipeVars, sensorVars,
                   yoloVars>>
\* DatabaseLoader.run over the message files, to its end: every record of
\* every file is upserted under its key.
LoadRun ==
    /\ scraperPc \in {"done", "raised"}
    /\ ~loadedAll
    /\ loaded' = loaded \cup SavedKeys(saved)
    /\ loadedAll' = TRUE
    /\ UNCHANGED <<sNow, posts, scraperPc, scrapeRuns, daysBack, chanIdx,
                   endDate, pos, collected, saved, opStatus, scraped,
                   failedPass, flooded, passEnd, returned, due, interrupted>>
    /\ UNCHANGED <<loaderVars, classifyVars, pipeVars, sensorVars,
                   yoloVars>>
\* DatabaseLoader.run cut short: some of the records are committed, not all.
LoadInterrupted ==
    /\ scraperPc \in {"done", "raised"}
    /\ ~loadedAll
    /\ \E K \in SUBSET (SavedKeys(saved) \ loaded) :
          /\ K # SavedKeys(saved) \ loaded
          /\ loaded' = loaded \cup K
    /\ interrupted' = TRUE
    /\ UNCHANGED <<sNow, posts, scraperPc, scrapeRuns, daysBack, chanIdx,
                   endDate, pos, collected, saved, opStatus, scraped,
                   failedPass, flooded, passEnd, returned, due, loadedAll>>
    /\ UNCHANGED <<loaderVars, classifyVars, pipeVars, sensorVars,
                   yoloVars>>
\* ------------------------------------------- YOLO enrichment and its load
MaxImages == 2       \* image files in data/raw/images; rows of a results file

\* A cell of a CSV file read back as text: the decimal text of a number
\* (kind "num"), the empty string, or some other text.
NumText(n) == [kind |-> "num", val |-> n]
EmptyText == [kind |-> "empty", val |-> 0]
OtherText == [kind |-> "other", val |-> 0]

\* int(text), float(text): the number, or ValueError.
Parses(cell) == cell.kind = "num"

\* One box of the detector's output.
YoloDetection(id, cls, conf, box) ==
    [class_id |-> id, class_name |-> cls, confidence |-> conf, bbox |-> box]

DetBottle == YoloDetection(39, "bottle", 90, <<0, 0, 10, 10>>)
DetPerson == YoloDetection(0, "person", 50, <<5, 5, 20, 20>>)

\* what self.model(image) finds in an image
DetLists == { <<>>, <<DetBottle>>, <<DetBottle, DetPerson>>,
              <<DetPerson, DetBottle>> }

\* An image file channel/stem.jpg: whether its stem is a number, whether it
\* still exists and can be read when it is processed, and what the detector
\* finds in it.
ImageFile(i, numeric, st, dets) ==
    [path |-> i, stem |-> IF numeric THEN NumText(i) ELSE OtherText,
     channel_name |-> "chemed", state |-> st, dets |-> dets]

ImageFiles(i) ==
    { ImageFile(i, num, "ok", d) : num \in BOOLEAN, d \in DetLists }
    \cup { ImageFile(i, num, st, <<>>) :
              num \in BOOLEAN, st \in {"missing", "unreadable"} }

ImageDirs ==
    UNION { { d \in [1..n -> UNION { ImageFiles(i) : i \in 1..n }] :
                \A i \in 1..n : d[i].path = i } : n \in 0..MaxImages }

\* detect_objects: {} (here: no result) for an image that does not exist or
\* that cv2.imread cannot read, else the result dictionary.
DetectObjects(img) ==
    IF img.state # "ok" THEN <<>>
    ELSE << [image_path |-> img.path,
             detections |-> img.dets,
             detection_count |-> Len(img.dets),
             image_category |-> ClassifyImage(img.dets)] >>

\* A loop over the images that ends at the first image without a res.
AfterImage_StopAtFailure(i, res, n) == IF res = <<>> THEN n + 1 ELSE i + 1

\* the "for image_path in image_files" loop goes on to the next image
\* whatever detect_objects returned
AfterImage(i, res, n) == i + 1

\* An op that treats a model that cannot be loaded as nothing to do.
AfterLoadModelRaise_Skip == "skipped"

\* load_model re-raises, YOLODetector() raises inside the op's try, whose
\* except re-raises: the op fails.
AfterLoadModelRaise == "failed"

\* ';'.join(cells) read back with split(';'): the cells, and one empty cell
\* for an empty list.
JoinSplit(cells, empty) == IF cells = <<>> THEN <<empty>> ELSE cells

\* save_results_csv: one row per res (filename and processing_time are
\* not modelled); detected_objects and confidence_scores are the class
\* names and the confidences joined with ';'.
CsvRow(r) ==
    [message_id |-> NumText(r.message_id),
     channel_name |-> r.channel_name,
     image_path |-> r.image_path,
     detection_count |-> NumText(r.detection_count),
     image_category |-> r.image_category,
     detected_objects |->
        [j \in 1..Len(r.detections) |-> r.detections[j].class_name],
     confidence_scores |->
        [j \in 1..Len(r.detections) |-> NumText(r.detections[j].confidence)]]

SaveResultsCsv(results) == [i \in 1..Len(results) |-> CsvRow(results[i])]

\* The rows of load_csv_results at which int() or float() raises.
RowRaises(row) ==
    LET names == JoinSplit(row.detected_objects, "")
        confs == JoinSplit(row.confidence_scores, EmptyText)
        n == IF Len(names) < Len(confs) THEN Len(names) ELSE Len(confs)
    IN  \/ \E j \in 1..n : /\ names[j] # ""
                           /\ confs[j] # EmptyText
                           /\ ~Parses(confs[j])
        \/ ~Parses(row.message_id)
        \/ ~Parses(row.detection_count)

\* The record load_csv_results builds from a row that parses.
CsvRecord(row) ==
    LET names == JoinSplit(row.detected_objects, "")
        confs == JoinSplit(row.confidence_scores, EmptyText)
        n == IF Len(names) < Len(confs) THEN Len(names) ELSE Len(confs)
        kept == SelectSeq([j \in 1..n |-> j],
                          LAMBDA j : names[j] # "" /\ confs[j] # EmptyText)
    IN  [message_id |-> row.message_id.val,
         channel_name |-> row.channel_name,
         image_path |-> row.image_path,
         detected_objects |->
            [k \in 1..Len(kept) |->
                [object |-> names[kept[k]], confidence |-> confs[kept[k]].val]],
         detection_count |-> row.detection_count.val,
         image_category |-> row.image_category]

\* load_csv_results: the records of all rows; the whole body is inside one
\* try, so an exception at any row returns [].
LoadCsvResults(rows) ==
    IF \E i \in 1..Len(rows) : RowRaises(rows[i]) THEN <<>>
    ELSE [i \in 1..Len(rows) |-> CsvRecord(rows[i])]

\* The columns of raw.image_detections as DatabaseInitializer creates it.
InitializerColumns ==
    {"id", "message_id", "channel_name", "image_path", "detected_objects",
     "processing_date", "created_at"}

\* The columns of raw.image_detections as YOLOResultsLoader creates it.
LoaderColumns ==
    {"id", "message_id", "channel_name", "image_path", "detected_objects",
     "detection_count", "image_category", "processing_date", "created_at"}

\* the columns of the three indexes of create_table_sql
IndexedColumns == {"message_id", "channel_name", "image_category"}

\* the columns insert_sql writes
InsertColumns ==
    {"message_id", "channel_name", "image_path", "detected_objects",
     "detection_count", "image_category", "processing_date"}

\* CREATE TABLE IF NOT EXISTS: the table is created when there is none
\* (no columns), and left as it is otherwise.
CreateIfNotExists(cols, new) == IF cols = {} THEN new ELSE cols

\* execute_batch(insert_sql): INSERT ... ON CONFLICT (message_id,
\* channel_name, image_path) DO UPDATE.
Upsert(rows, recs) ==
    LET key(r) == <<r.message_id, r.channel_name, r.image_path>>
        last(r) == \E i \in 1..Len(recs) :
                      /\ recs[i] = r
                      /\ \A j \in (i+1)..Len(recs) : key(recs[j]) # key(r)
    IN  { r \in rows : \A i \in 1..Len(recs) : key(recs[i]) # key(r) }
        \cup { recs[i] : i \in { j \in 1..Len(recs) : last(recs[j]) } }

YoloIdle ==
    /\ images = <<>>
    /\ modelLoads = TRUE
    /\ yoloPc = "idle"
    /\ imgIdx = 1
    /\ allResults = <<>>
    /\ csvExists = FALSE
    /\ csvRows = <<>>
    /\ tableColumns = {}
    /\ imageDetections = {}
    /\ yoloStatus = "none"
    /\ yoloLoadStatus = "none"

\* DatabaseInitializer.run (op init_database, and scripts/init_database.py):
\* create_raw_tables creates raw.image_detections if it does not exist.
InitDatabase ==
    /\ tableColumns' = CreateIfNotExists(tableColumns, InitializerColumns)
    /\ UNCHANGED <<images, modelLoads, yoloPc, imgIdx, allResults, csvExists,
                   csvRows, imageDetections, yoloStatus, yoloLoadStatus>>
    /\ UNCHANGED <<loaderVars, classifyVars, pipeVars, sensorVars,
                   scraperVars>>

\* run_yolo_enrichment begins: without image files it returns "skipped"
\* before a detector is constructed.
EnrichmentStart ==
    /\ yoloPc = "idle"
    /\ IF images = <<>>
       THEN /\ yoloStatus' = "skipped"
            /\ yoloPc' = "enriched"
       ELSE /\ yoloPc' = "model"
            /\ UNCHANGED yoloStatus
    /\ UNCHANGED <<images, modelLoads, imgIdx, allResults, csvExists, csvRows,
                   tableColumns, imageDetections, yoloLoadStatus>>
    /\ UNCHANGED <<loaderVars, classifyVars, pipeVars, sensorVars,
                   scraperVars>>

\* YOLODetector(): load_model returns, or raises.
LoadModel ==
    /\ yoloPc = "model"
    /\ IF modelLoads
       THEN /\ yoloPc' = "detect"
            /\ UNCHANGED yoloStatus
       ELSE /\ yoloPc' = "enriched"
            /\ yoloStatus' = AfterLoadModelRaise
    /\ imgIdx' = 1
    /\ UNCHANGED <<images, modelLoads, allResults, csvExists, csvRows,
                   tableColumns, imageDetections, yoloLoadStatus>>
    /\ UNCHANGED <<loaderVars, classifyVars, pipeVars, sensorVars,
                   scraperVars>>

\* One round of the loop of process_images_directory: a stem that is not a
\* number is passed over, a res that is not empty is appended.
ProcessImage ==
    /\ yoloPc = "detect"
    /\ imgIdx <= Len(images)
    /\ LET img == images[imgIdx]
           res == DetectObjects(img)
       IN  IF ~Parses(img.stem)
           THEN /\ imgIdx' = imgIdx + 1
                /\ UNCHANGED allResults
           ELSE /\ allResults' =
                     IF res # <<>>
                     THEN Append(allResults,
                                 [image_path |-> res[1].image_path,
                                  detections |-> res[1].detections,
                                  detection_count |-> res[1].detection_count,
                                  image_category |-> res[1].image_category,
                                  message_id |-> img.stem.val,
                                  channel_name |-> img.channel_name])
                     ELSE allResults
                /\ imgIdx' = AfterImage(imgIdx, res, Len(images))
    /\ UNCHANGED <<images, modelLoads, yoloPc, csvExists, csvRows,
                   tableColumns, imageDetections, yoloStatus, yoloLoadStatus>>
    /\ UNCHANGED <<loaderVars, classifyVars, pipeVars, sensorVars,
                   scraperVars>>

\* The loop is over: the results are saved to the CSV file when there are
\* any, and the op returns "success" with the file, or "skipped".
EnrichmentReturn ==
    /\ yoloPc = "detect"
    /\ imgIdx > Len(images)
    /\ IF allResults # <<>>
       THEN /\ csvExists' = TRUE
            /\ csvRows' = SaveResultsCsv(allResults)
            /\ yoloStatus' = "success"
       ELSE /\ yoloStatus' = "skipped"
            /\ UNCHANGED <<csvExists, csvRows>>
    /\ yoloPc' = "enriched"
    /\ UNCHANGED <<images, modelLoads, imgIdx, allResults, tableColumns,
                   imageDetections, yoloLoadStatus>>
    /\ UNCHANGED <<loaderVars, classifyVars, pipeVars, sensorVars,
                   scraperVars>>

\* load_yolo_results begins (it is not executed when run_yolo_enrichment
\* failed): "skipped" unless the enrichment returned "success"; it raises
\* when the output file does not exist.
LoadResultsStart ==
    /\ yoloPc = "enriched"
    /\ yoloStatus # "failed"
    /\ IF yoloStatus # "success"
       THEN /\ yoloLoadStatus' = "skipped"
            /\ yoloPc' = "done"
       ELSE IF ~csvExists
       THEN /\ yoloLoadStatus' = "failed"
            /\ yoloPc' = "done"
       ELSE /\ yoloPc' = "run"
            /\ UNCHANGED yoloLoadStatus
    /\ UNCHANGED <<images, modelLoads, imgIdx, allResults, csvExists, csvRows,
                   tableColumns, imageDetections, yoloStatus>>
    /\ UNCHANGED <<loaderVars, classifyVars, pipeVars, sensorVars,
                   scraperVars>>

\* YOLOResultsLoader.run: create_table (the table if it does not exist,
\* then the indexes: an index on a column the table lacks is an error, the
\* transaction is rolled back and run returns False), load_csv_results,
\* and, if there are records, insert_records; load_yolo_results raises
\* when run returns False.
LoaderRun ==
    /\ yoloPc = "run"
    /\ LET cols == CreateIfNotExists(tableColumns, LoaderColumns)
           records == LoadCsvResults(csvRows)
       IN  IF ~(IndexedColumns \subseteq cols)
           THEN /\ yoloLoadStatus' = "failed"
                /\ UNCHANGED <<tableColumns, imageDetections>>
           ELSE /\ tableColumns' = cols
                /\ IF records = <<>>
                   THEN /\ yoloLoadStatus' = "failed"
                        /\ UNCHANGED imageDetections
                   ELSE IF ~(InsertColumns \subseteq cols)
                   THEN /\ yoloLoadStatus' = "failed"
                        /\ UNCHANGED imageDetections
                   ELSE /\ imageDetections' = Upsert(imageDetections, records)
                        /\ yoloLoadStatus' = "success"
    /\ yoloPc' = "done"
    /\ UNCHANGED <<images, modelLoads, imgIdx, allResults, csvExists, csvRows,
                   yoloStatus>>
    /\ UNCHANGED <<loaderVars, classifyVars, pipeVars, sensorVars,
                   scraperVars>>
\* ----------------------------------------------- one loader, repeated runs
Init ==
    /\ \E fs \in FileSets(MaxMsgs) :
          LoaderInit([l \in Loaders |-> IF l = 1 THEN fs ELSE <<>>])
    /\ ClassifyIdle
    /\ PipelineInit
    /\ YoloIdle
    /\ SensorIdle
    /\ ScraperIdle

Next ==
    \/ RunStart(1, MaxRuns)
    \/ ProcessFile(1)
    \/ NextBatch(1)
    \/ ExecRecord(1)
    \/ ExecRaise(1)
    \/ Commit(1)
    \/ RunEnd(1)

Spec == Init /\ [][Next]_vars

\* ------------------------------------------- two loaders, one run each
\* Each loader finds one file of well-formed messages.
ConcInit ==
    /\ \E f1, f2 \in SeqsUpTo({ m \in Messages : WellFormed(m) }, MaxConcMsgs) :
          LoaderInit([l \in Loaders |-> IF l = 1 THEN <<f1>> ELSE <<f2>>])
    /\ ClassifyIdle
    /\ PipelineInit
    /\ YoloIdle
    /\ SensorIdle
    /\ ScraperIdle

ConcNext ==
    \E l \in Loaders :
        \/ RunStart(l, 1)
        \/ ProcessFile(l)
        \/ NextBatch(l)
        \/ ExecRecord(l)
        \/ DeadlockRaise(l)
        \/ Commit(l)
        \/ RunEnd(l)

ConcSpec == ConcInit /\ [][ConcNext]_vars

\* ------------------------------------------ classify_image on any input
LoaderIdle == LoaderInit([l \in Loaders |-> <<>>])

ClassifyInit ==
    /\ \E dets \in {<<>>} \cup SeqsUpTo(
            { Detection(cls, conf) : cls \in Labels, conf \in Confidences },
            MaxDet) : detections = dets
    /\ category = ""
    /\ cpc = "new"
    /\ LoaderIdle
    /\ PipelineInit
    /\ YoloIdle
    /\ SensorIdle
    /\ ScraperIdle

ClassifyNext == Classify

ClassifySpec == ClassifyInit /\ [][ClassifyNext]_vars

\* --------------------------------------- one run of telegram_data_pipeline
PipelineSpecInit ==
    /\ PipelineInit
    /\ YoloIdle
    /\ LoaderIdle
    /\ ClassifyIdle
    /\ SensorIdle
    /\ ScraperIdle

PipelineNext ==
    \/ \E o \in Ops : StartOp(o)
    \/ \E o \in Ops : ReturnOp(o)
    \/ \E o \in Ops : RaiseOp(o)
    \/ GenerateReport
    \/ \E o \in Ops : SkipOp(o)

PipelineSpec == PipelineSpecInit /\ [][PipelineNext]_vars

\* ------------------------------------- the sensor and the message files
SensorInit ==
    /\ SensorIdle
    /\ ScraperIdle
    /\ LoaderIdle
    /\ ClassifyIdle
    /\ PipelineInit
    /\ YoloIdle

SensorNext ==
    \/ Tick
    \/ \E f \in MsgFiles : WriteFile(f)
    \/ SensorScan
    \/ SensorDecide

SensorSpec == SensorInit /\ [][SensorNext]_vars

\* The sensor together with the runs it requests.
TriggerNext ==
    \/ SensorNext
    \/ TriggeredScrape

TriggerSpec == SensorInit /\ [][TriggerNext]_vars

\* ------------------------------------------ runs of the scraper and loads
ScraperInit ==
    /\ \E ps \in [ChannelSet -> Histories] :
          /\ Len(ps[Channels[1]]) + Len(ps[Channels[2]]) <= MaxPosts
          /\ ScraperReset(ps)
    /\ LoaderIdle
    /\ ClassifyIdle
    /\ PipelineInit
    /\ YoloIdle
    /\ SensorIdle

ScraperNext ==
    \/ ScrapeRun
    \/ InitClient
    \/ InitClientRaise
    \/ PassStart
    \/ IterStep
    \/ PassReturn
    \/ \E kind \in {"flood", "error"} : PassRaise(kind)
    \/ RunReturn
    \/ LoadRun
    \/ LoadInterrupted

ScraperSpec == ScraperInit /\ [][ScraperNext]_vars

\* ---------------------------------- one run over date-partitioned files
\* The files save_messages_json leaves for two days of two channels: one
\* file per day and channel, the messages of a day in ascending order.
DatedFiles ==
    { <<Message(1, "chemed", 1)>>,
      <<Message(2, "chemed", 1), Message(3, "chemed", 2)>>,
      <<Message(1, "lobelia", 1)>> }

\* rglob yields the files in the order of the directory entries, which is
\* not sorted: any order of the files found.
RglobOrders(fs) ==
    UNION { { o \in [1..Cardinality(S) -> S] :
                \A i, j \in 1..Cardinality(S) : i # j => o[i] # o[j] } :
            S \in SUBSET fs \ {{}} }

OrderInit ==
    /\ \E o \in RglobOrders(DatedFiles) :
          LoaderInit([l \in Loaders |-> IF l = 1 THEN o ELSE <<>>])
    /\ ClassifyIdle
    /\ PipelineInit
    /\ YoloIdle
    /\ SensorIdle
    /\ ScraperIdle

OrderNext ==
    \/ RunStart(1, 1)
    \/ ProcessFile(1)
    \/ NextBatch(1)
    \/ ExecRecord(1)
    \/ Commit(1)
    \/ RunEnd(1)

OrderSpec == OrderInit /\ [][OrderNext]_vars

\* ------------------------------ the two YOLO ops of one run of the job
\* The image directory and the model file are as the run finds them; the
\* table raw.image_detections is created by whichever of init_database and
\* load_yolo_results comes first (neither op depends on the other).
YoloInit ==
    /\ \E d \in ImageDirs : images = d
    /\ modelLoads \in BOOLEAN
    /\ yoloPc = "idle"
    /\ imgIdx = 1
    /\ allResults = <<>>
    /\ csvExists = FALSE
    /\ csvRows = <<>>
    /\ tableColumns = {}
    /\ imageDetections = {}
    /\ yoloStatus = "none"
    /\ yoloLoadStatus = "none"
    /\ LoaderIdle
    /\ ClassifyIdle
    /\ PipelineInit
    /\ SensorIdle
    /\ ScraperIdle

YoloNext ==
    \/ InitDatabase
    \/ EnrichmentStart
    \/ LoadModel
    \/ ProcessImage
    \/ EnrichmentReturn
    \/ LoadResultsStart
    \/ LoaderRun

YoloSpec == YoloInit /\ [][YoloNext]_vars

\* --------------------------- load_yolo_results on a given results file
\* YOLOResultsLoader.run on a results file that is given, with the table
\* absent or already created by an earlier run of the loader.
\* A row of a results file as save_results_csv writes it, or with one of
\* its cells replaced by text that is not a number.
GivenRow(i, dets, bad) ==
    LET row == CsvRow([message_id |-> i, channel_name |-> "chemed",
                       image_path |-> i, detections |-> dets,
                       detection_count |-> Len(dets),
                       image_category |-> ClassifyImage(dets)])
    IN  IF bad = "message_id" THEN [row EXCEPT !.message_id = OtherText]
        ELSE IF bad = "detection_count"
        THEN [row EXCEPT !.detection_count = OtherText]
        ELSE IF bad = "confidence" /\ dets # <<>>
        THEN [row EXCEPT !.confidence_scores = [@ EXCEPT ![1] = OtherText]]
        ELSE row

GivenRows(i) ==
    { GivenRow(i, d, bad) :
        d \in DetLists,
        bad \in {"none", "message_id", "detection_count", "confidence"} }

ResultFiles ==
    UNION { { f \in [1..n -> UNION { GivenRows(i) : i \in 1..n }] :
                \A i \in 1..n : f[i].image_path = i } : n \in 1..MaxImages }

YoloLoadInit ==
    /\ images = <<>>
    /\ modelLoads = TRUE
    /\ yoloPc = "enriched"
    /\ imgIdx = 1
    /\ allResults = <<>>
    /\ csvExists = TRUE
    /\ \E f \in ResultFiles : csvRows = f
    /\ tableColumns \in {{}, LoaderColumns}
    /\ imageDetections = {}
    /\ yoloStatus = "success"
    /\ yoloLoadStatus = "none"
    /\ LoaderIdle
    /\ ClassifyIdle
    /\ PipelineInit
    /\ SensorIdle
    /\ ScraperIdle

YoloLoadNext ==
    \/ InitDatabase
    \/ LoadResultsStart
    \/ LoaderRun

YoloLoadSpec == YoloLoadInit /\ [][YoloLoadNext]_vars

\* ================================================================ claims
\* ---------------------------------------------------------------- C1
\* C1: after any sequence of committed load_batch calls the table holds
\* exactly one row for each (message_id, channel_name) ever loaded and none
\* for any other key, and the row's mutable fields (text, view and forward
\* counters) are those of the most recently committed load of that key.
C1_OneRowPerKeyLatestValues ==
    /\ \A k \in AllKeys :
          Cardinality({ r \in db : KeyOf(r) = k }) =
              IF lastLoaded[k] = <<>> THEN 0 ELSE 1
    /\ \A r \in db :
          /\ KeyOf(r) \in AllKeys
          /\ lastLoaded[KeyOf(r)] # <<>>
          /\ r.message_text = lastLoaded[KeyOf(r)][1].message_text
          /\ r.views = lastLoaded[KeyOf(r)][1].views
          /\ r.forwards = lastLoaded[KeyOf(r)][1].forwards

\* A key inserted by one load and overwritten by a later load with other
\* values, next to a row of the same message_id in another channel.
C1_Witness ==
    /\ \E r \in db : r.views = 20 /\ r.has_media = FALSE
    /\ Cardinality(db) = 2

\* ---------------------------------------------------------------- C2
\* C2: a statement that upserts a record whose key is already stored leaves
\* the row with the record's message_text, image_path, views, forwards and
\* scraped_at, and with its created_at, message_id and channel_name as they
\* were.
C2_UpsertOverwritesListedFields ==
    [][\A l \in Loaders :
          (pc[l] = "exec" /\ recIdx'[l] = recIdx[l] + 1) =>
              \A o \in Conflicting(View(l), Batch(l)[recIdx[l]]) :
                  \E n \in written'[l] :
                      /\ n.message_id = o.message_id
                      /\ n.channel_name = o.channel_name
                      /\ n.created_at = o.created_at
                      /\ n.message_text = Batch(l)[recIdx[l]].message_text
                      /\ n.image_path = Batch(l)[recIdx[l]].image_path
                      /\ n.views = Batch(l)[recIdx[l]].views
                      /\ n.forwards = Batch(l)[recIdx[l]].forwards
                      /\ n.scraped_at = Batch(l)[recIdx[l]].scraped_at]_vars

\* ---------------------------------------------------------------- C3
\* C3: a second run (same batch_size) over the unchanged message files leaves every column of
\* every row as the first run left it.
C3_SecondRunIsNoOp ==
    \A l \in Loaders :
        (Len(runLog[l]) >= 2 /\ runLog[l][2].batch_size = runLog[l][1].batch_size)
            => runLog[l][2].db = runLog[l][1].db

\* the table with the processed_at entry of every raw_data blanked
WithoutProcessedAt(table) ==
    { [r EXCEPT !.raw_data = [r.raw_data EXCEPT !.processed_at = 0]] :
        r \in table }

\* C3 (amended): a second run with the same batch_size over the unchanged
\* message files leaves every row as the first run left it in every column
\* but raw_data, and in raw_data in every entry but processed_at.
C3_SecondRunKeepsAllButProcessedAt ==
    \A l \in Loaders :
        (Len(runLog[l]) >= 2 /\ runLog[l][2].batch_size = runLog[l][1].batch_size)
            => WithoutProcessedAt(runLog[l][2].db)
                   = WithoutProcessedAt(runLog[l][1].db)

\* A second run with the same batch_size that rewrote stored rows.
C3_Witness ==
    /\ Len(runLog[1]) >= 2
    /\ runLog[1][2].batch_size = runLog[1][1].batch_size
    /\ runLog[1][1].db # {}
    /\ runLog[1][2].db # runLog[1][1].db

\* ---------------------------------------------------------------- C4
RECURSIVE ApplyBatch(_, _, _, _)
ApplyBatch(table, batch, t, s) ==
    IF batch = <<>> THEN table
    ELSE ApplyBatch(InsertSql(table, Head(batch), t, s + 1),
                    Tail(batch), t, s + 1)

\* the batch of the load_batch call that returned last
LastBatch(l) ==
    SubSeq(batchData[l], batchStart[l] - batchSize[l],
           Min(batchStart[l] - 1, Len(batchData[l])))

\* C4: while a load_batch call runs, and once it has raised, the table is as
\* it was when the call began (none of the batch is visible); once it has
\* returned, the table is the one the call began with with every record of
\* the batch upserted.  No part of a batch is ever visible alone.
C4_BatchAllOrNothing ==
    /\ pc[1] \in {"exec", "failed"} => db = dbBefore[1]
    /\ (pc[1] \in {"batch", "file", "done"} /\ batchStart[1] > 1) =>
          db = ApplyBatch(dbBefore[1], LastBatch(1), now,
                          seq - Len(LastBatch(1)))

\* A call that raised after a statement of its batch had been executed.
C4_Witness ==
    /\ pc[1] = "failed"
    /\ recIdx[1] > 1
    /\ WellFormed(Batch(1)[1])
    /\ KeyOf(Batch(1)[1]) \notin Keys(db)

\* ---------------------------------------------------------------- C5
\* C5: when a batch of a run fails on a malformed record, every well-formed
\* record of the later batches of the file and of the later files is in the
\* table when the run has ended.
C5_LaterBatchesStillLoaded ==
    \A l \in Loaders :
        pc[l] = "failed" =>
            /\ \A i \in (batchStart[l] + batchSize[l])..Len(batchData[l]) :
                  ~ViolatesNotNull(batchData[l][i]) =>
                      KeyOf(batchData[l][i]) \in Keys(db)
            /\ \A f \in (fileIdx[l] + 1)..Len(files[l]) :
                  \A i \in 1..Len(files[l][f]) :
                      WellFormed(files[l][f][i]) =>
                          KeyOf(files[l][f][i]) \in Keys(db)

\* ---------------------------------------------------------------- C6
\* C6: two loaders that load well-formed batches with overlapping keys at
\* the same time both complete without an error, in every interleaving.
C6_ConcurrentLoadersNeverFail ==
    \A l \in Loaders : pc[l] # "failed"

\* ---------------------------------------------------------------- C7
LabelSet(dets) == { dets[i].class_name : i \in 1..Len(dets) }

\* the ordered rule table: rule i applies to a set of labels
RuleCategory == <<"promotional", "product_display", "lifestyle",
                  "medical_tools">>

RuleApplies(i, labels) ==
    LET container == labels \cap {"bottle", "cup", "bowl"} # {}
        person    == "person" \in labels
        tool      == labels \cap {"scissors", "knife"} # {}
    IN  CASE i = 1 -> container /\ person
          [] i = 2 -> container /\ ~person
          [] i = 3 -> person /\ ~container
          [] OTHER -> tool

FirstMatch(labels) ==
    LET hits == { i \in 1..Len(RuleCategory) : RuleApplies(i, labels) }
    IN  IF hits = {} THEN "other"
        ELSE RuleCategory[CHOOSE i \in hits : \A j \in hits : i <= j]

\* C7: the category classify_image returns is that of the first rule of the
\* ordered table that applies to the set of detected labels, and "other"
\* when none applies; order, multiplicity and confidence play no part.
C7_CategoryIsFirstMatchingRule ==
    cpc = "classified" => category = FirstMatch(LabelSet(detections))

\* An image with a repeated label in which a later rule (tools) applies too.
C7_Witness ==
    /\ cpc = "classified"
    /\ Len(detections) = 3
    /\ LabelSet(detections) = {"person", "scissors"}
    /\ category = "lifestyle"

\* ---------------------------------------------------------------- C8
Begun(o) == step[o] \in {"started", "succeeded", "failed"}

\* C8: load_raw_to_postgres starts only after scrape_telegram_data has
\* finished, run_dbt_transformations only after load_raw_to_postgres has,
\* and run_analytics_api only after run_dbt_transformations has.
C8_DocumentedOrderIsKept ==
    /\ Begun("load_raw_to_postgres") =>
          step["scrape_telegram_data"] = "succeeded"
    /\ Begun("run_dbt_transformations") =>
          step["load_raw_to_postgres"] = "succeeded"
    /\ Begun("run_analytics_api") =>
          step["run_dbt_transformations"] = "succeeded"

\* ---------------------------------------------------------------- C9
\* C9: generate_report does not start before each of its seven upstream ops
\* is terminal, and load_yolo_results is never executed in a run in which
\* run_yolo_enrichment failed.
C9_StartsAfterAllPredecessors ==
    /\ Begun("generate_report") =>
          \A o \in Ops \ {"generate_report"} : Terminal(o)
    /\ step["run_yolo_enrichment"] = "failed" =>
          ~Begun("load_yolo_results")

\* generate_report running, after a run in which run_yolo_enrichment found
\* nothing to do and load_yolo_results ran on its output.
C9_Witness ==
    /\ step["generate_report"] = "started"
    /\ result["run_yolo_enrichment"].status = "skipped"
    /\ result["load_yolo_results"].status = "skipped"

\* ---------------------------------------------------------------- C10
\* C10: once every op of a run is terminal, and generate_report itself did
\* not raise, a report file has been written, whatever the other ops did.
C10_EveryRunWritesReport ==
    ((\A o \in Ops : Terminal(o)) /\ step["generate_report"] # "failed")
        => Len(reports) >= 1

\* ---------------------------------------------------------------- C11
\* C11: the all_successful flag of a report is true exactly when every step
\* the report lists has status success; a report that lists a skipped step
\* has the flag false.
C11_FlagIffEveryStepIsSuccess ==
    \A i \in 1..Len(reports) :
        reports[i].all_successful =
            (\A j \in 1..Len(reports[i].steps) :
                 reports[i].steps[j].status = "success")

\* C11 (amended): the all_successful flag of a report is true exactly when
\* every step the report lists has status success, ready or skipped, and
\* successful_steps is the number of such steps.
C11_FlagIffEveryStepIsSuccessReadyOrSkipped ==
    \A i \in 1..Len(reports) :
        /\ reports[i].all_successful =
              (\A j \in 1..Len(reports[i].steps) :
                   reports[i].steps[j].status \in {"success", "ready", "skipped"})
        /\ reports[i].successful_steps =
              Cardinality({ j \in 1..Len(reports[i].steps) :
                  reports[i].steps[j].status \in {"success", "ready", "skipped"} })

\* A report that lists skipped steps and a ready step next to success steps.
C11_Witness ==
    /\ Len(reports) = 1
    /\ reports[1].all_successful
    /\ \E j \in 1..Len(reports[1].steps) :
          reports[1].steps[j].status = "skipped"
    /\ \E j \in 1..Len(reports[1].steps) :
          reports[1].steps[j].status = "ready"
    /\ \E j \in 1..Len(reports[1].steps) :
          reports[1].steps[j].status = "success"

\* ---------------------------------------------------------------- C12
\* the ops that do not consume the output of run_yolo_enrichment
IndependentOfYolo == {"init_database", "scrape_telegram_data",
                      "load_raw_to_postgres", "run_dbt_transformations",
                      "run_analytics_api"}

\* C12: in a run in which run_yolo_enrichment fails, none of init_database,
\* scrape_telegram_data, load_raw_to_postgres, run_dbt_transformations and
\* run_analytics_api is withheld: each is executed and, once the run is
\* over, has returned or raised itself; and what such an op has returned is
\* never taken back by a later step of the run.
C12_FailureWithholdsDependentsOnly ==
    /\ [](step["run_yolo_enrichment"] = "failed" =>
            \A o \in IndependentOfYolo :
                /\ step[o] # "upstream_failed"
                /\ (\A p \in Ops : Terminal(p)) =>
                      step[o] \in {"succeeded", "failed"})
    /\ [][\A o \in IndependentOfYolo :
              step[o] = "succeeded" =>
                  (step'[o] = "succeeded" /\ result'[o] = result[o])]_vars

\* A finished run in which run_yolo_enrichment failed, its dependents were
\* withheld and the five other ops all returned.
C12_Witness ==
    /\ step["run_yolo_enrichment"] = "failed"
    /\ step["load_yolo_results"] = "upstream_failed"
    /\ step["generate_report"] = "upstream_failed"
    /\ \A o \in IndependentOfYolo : step[o] = "succeeded"

\* ---------------------------------------------------------------- C13
\* C13: an evaluation whose scan read, for at least one message file, a
\* modification time later than the cursor the evaluation began with returns
\* one run request and leaves a cursor later than the one it began with.
C13_NewFileGivesOneRequestAndLaterCursor ==
    (\E f \in MsgFiles : lastEval.seen[f] > lastEval.before) =>
        /\ lastEval.emitted = 1
        /\ lastEval.after > lastEval.before
        /\ cursor >= lastEval.after

\* An evaluation, not the first to fire, that found a rewritten file.
C13_Witness ==
    /\ lastEval.before > 0
    /\ lastEval.emitted = 1
    /\ lastEval.after > lastEval.before
    /\ sensorPc = "idle"

\* ---------------------------------------------------------------- C14
\* C14: every file an evaluation that returned a run request counted as new
\* has a modification time not later than the cursor that evaluation left,
\* and no later evaluation counts as new a file of that batch whose
\* modification time is still the same.
C14_AtMostOnceForTheSameFiles ==
    /\ \A f \in fired.new : fired.seen[f] <= fired.after
    /\ sensorPc = "scanned" =>
          \A f \in fired.new : seen[f] = fired.seen[f] => f \notin newFiles

\* A later evaluation that fires for one file only, the other file of the
\* batch that fired before being unmodified.
C14_Witness ==
    /\ sensorPc = "scanned"
    /\ Cardinality(fired.new) = 2
    /\ Cardinality(newFiles) = 1
    /\ \E f \in fired.new : seen[f] = fired.seen[f]

\* ---------------------------------------------------------------- C15
\* C15: a message file written after the cursor last advanced is counted as
\* new by the next scan of the sensor (so that the next evaluation returns a
\* run request), whatever the order of writes and evaluations.
C15_NoNewFileIsMissed ==
    sensorPc = "idle" => \A f \in unserved : mtime[f] > cursor

\* ---------------------------------------------------------------- C16
\* the messages of the files of channel c, by day
SavedOf(c) == { m \in UNION { { saved[k][i] : i \in 1..Len(saved[k]) } :
                                k \in DOMAIN saved } : m.channel_name = c }

\* C16: when the pass of a channel met FloodWaitError, the scraper waits
\* and resumes that channel, so that once the run has ended every message
\* the pass was to yield is in the channel's files, once and in order.
C16_FloodedPassIsResumed ==
    scraperPc = "done" =>
        \A c \in flooded :
            /\ returned[c] = IterMessages(posts, c, passEnd[c])
            /\ \A i \in 1..Len(IterMessages(posts, c, passEnd[c])) :
                  IterMessages(posts, c, passEnd[c])[i] \in SavedOf(c)

\* ---------------------------------------------------------------- C17
\* the messages of channel c dated from lo to hi, oldest first
Window(c, lo, hi) ==
    SelectSeq(ChannelMessages(posts, c),
              LAMBDA m : lo <= m.message_date /\ m.message_date <= hi)

\* C17: a pass that did not fail returns the messages of the channel dated
\* from now - days_back to now (now being the time the pass began), each
\* once, oldest first.
C17_PassReturnsTheWindow ==
    \A c \in scraped \ failedPass :
        returned[c] = Window(c, passEnd[c] - daysBack * TicksPerDay,
                             passEnd[c])

\* ---------------------------------------------------------------- C18
\* C18: once a run has ended, every configured channel has had its pass,
\* whichever passes failed before it, and every message that the pass of a
\* channel that did not fail was to yield is in the file of its day.
C18_FailedPassLeavesOtherChannelsAlone ==
    scraperPc = "done" =>
        \A c \in ChannelSet :
            /\ c \in scraped
            /\ c \notin failedPass =>
                  \A i \in 1..Len(posts[c]) :
                      posts[c][i] > passEnd[c] =>
                          \E j \in 1..Len(saved[<<DayOf(posts[c][i]), c>>]) :
                              saved[<<DayOf(posts[c][i]), c>>][j] =
                                  [message_id |-> i, channel_name |-> c,
                                   message_date |-> posts[c][i]]

\* A first run in which the pass of chemed failed and the pass of
\* lobelia4cosmetics, after it, saved a message.
C18_Witness ==
    /\ scraperPc = "done"
    /\ scrapeRuns = 1
    /\ failedPass = {"chemed"}
    /\ returned["lobelia4cosmetics"] # <<>>
    /\ \E d \in Days : saved[<<d, "lobelia4cosmetics">>] # <<>>

\* ---------------------------------------------------------------- C19
\* C19: a run in which the pass of a channel failed does not end with the
\* collection step reporting status success.
C19_FailedPassIsReported ==
    (scraperPc = "done" /\ failedPass # {}) => opStatus # "success"

\* ---------------------------------------------------------------- C20
\* C20: when a pass or a load of the first run was cut short, and the
\* collection and the load are then run again to their end, every record
\* the passes of the first run were to yield is stored.
C20_RestartStoresWhatThePassWasToStore ==
    (/\ interrupted
     /\ scrapeRuns >= 2
     /\ scraperPc = "done"
     /\ failedPass = {}
     /\ loadedAll) => due \subseteq loaded

\* ---------------------------------------------------------------- C21
\* C21: every step entry of every report file has a status that is one of
\* success, skipped and failed.
C21_StepStatusIsSuccessSkippedOrFailed ==
    \A i \in 1..Len(reports) :
        \A j \in 1..Len(reports[i].steps) :
            reports[i].steps[j].status \in {"success", "skipped", "failed"}

\* ---------------------------------------------------------------- C27
\* C27: every report file that generate_report writes has all_successful
\* true and counts every step it lists as successful.
C27_EveryPersistedReportIsAllSuccessful ==
    \A i \in 1..Len(reports) :
        /\ reports[i].all_successful = TRUE
        /\ reports[i].successful_steps = reports[i].total_steps
        /\ reports[i].total_steps = Len(reports[i].steps)

\* A report of a run in which the enrichment and its load were skipped and
\* the API dependencies were missing: three of the six steps are skipped.
C27_Witness ==
    /\ Len(reports) = 1
    /\ reports[1].total_steps = 6
    /\ Cardinality({ j \in 1..Len(reports[1].steps) :
                       reports[1].steps[j].status = "skipped" }) = 3

\* ---------------------------------------------------------------- C25
\* C25: a run never commits a record of a channel when the table already
\* holds, committed earlier in the run, a record of the same channel with a
\* later message_date; and the records of one batch are in ascending order
\* of message_date within each channel.
C25_CommitsInDateOrderPerChannel ==
    [][(pc[1] = "exec" /\ pc'[1] = "batch") =>
          \A i \in 1..Len(Batch(1)) :
              /\ \A r \in db :
                    r.channel_name = Batch(1)[i].channel_name =>
                        r.message_date <= Batch(1)[i].message_date
              /\ \A j \in 1..i :
                    Batch(1)[j].channel_name = Batch(1)[i].channel_name =>
                        Batch(1)[j].message_date <= Batch(1)[i].message_date]_vars

\* ---------------------------------------------------------------- C29
\* C29: no step of any sequence of collection passes removes a
\* (message_id, channel_name) record from the message files: the set of
\* saved records after a step contains the set before it.
C29_SavedRecordsNeverShrink ==
    [][SavedKeys(saved) \subseteq SavedKeys(saved')]_vars

\* ---------------------------------------------------------------- C30
\* C30: a run request is emitted only for a file added from outside the
\* pipeline: whenever an evaluation returns a RunRequest, some message file
\* has been written from outside since the previous RunRequest (the files
\* a sensor-triggered run wrote do not by themselves cause a request).
C30_RequestNeedsAFileFromOutside ==
    [][(sensorPc = "scanned" /\ sensorPc' = "idle" /\ newFiles # {}) =>
          unserved # {}]_vars

\* ---------------------------------------------------------------- C22
\* C22 as stated: whenever the model cannot be loaded, run_yolo_enrichment
\* ends in failure, not in success or skipped.
C22_UnloadableModelFailsTheStep ==
    (~modelLoads /\ yoloPc \in {"enriched", "done"}) => yoloStatus = "failed"

\* C22 amended: when there is an image to process and the model cannot be
\* loaded, run_yolo_enrichment ends in failure; and whether or not there is
\* an image, a run whose model cannot be loaded never ends in success,
\* produces no detection record and no results file, and loads nothing
\* into raw.image_detections.
C22_UnloadableModelFailsTheStepWhenThereAreImages ==
    ~modelLoads =>
        /\ (yoloPc \in {"enriched", "done"} /\ images # <<>>) =>
               /\ yoloStatus = "failed"
               /\ yoloLoadStatus = "none"
        /\ yoloStatus # "success"
        /\ yoloLoadStatus \notin {"success", "failed"}
        /\ allResults = <<>>
        /\ ~csvExists
        /\ imageDetections = {}

C22_Witness ==
    /\ ~modelLoads
    /\ yoloPc = "enriched"
    /\ yoloStatus = "failed"
    /\ \E i \in 1..Len(images) : images[i].state = "ok" /\ Parses(images[i].stem)

\* ---------------------------------------------------------------- C23
\* The paths of the first n image files that exist, can be read and are
\* named by a number, in the order of the directory listing.
ReadablePaths(n) ==
    LET idx == SelectSeq([i \in 1..n |-> i],
                         LAMBDA i : /\ images[i].state = "ok"
                                    /\ Parses(images[i].stem))
    IN  [k \in 1..Len(idx) |-> images[idx[k]].path]

ResultPaths == [k \in 1..Len(allResults) |-> allResults[k].image_path]

\* C23: with a model that loads, an image that is missing or cannot be read
\* yields no result record and stops nothing: at every point of the loop
\* the results are those of exactly the readable images met so far, each
\* once and in order, and when the loop is over run_yolo_enrichment has
\* ended in success or skipped, never in failure.
C23_UnreadableImageIsSkippedAlone ==
    modelLoads =>
        /\ yoloPc = "detect" => ResultPaths = ReadablePaths(imgIdx - 1)
        /\ (yoloPc \in {"enriched", "run", "done"} /\ images # <<>>) =>
               /\ ResultPaths = ReadablePaths(Len(images))
               /\ yoloStatus = IF allResults # <<>> THEN "success" ELSE "skipped"

C23_Witness ==
    /\ modelLoads
    /\ yoloPc = "enriched"
    /\ yoloStatus = "success"
    /\ \E i, j \in 1..Len(images) :
          /\ i < j
          /\ images[i].state # "ok"
          /\ Parses(images[i].stem)
          /\ images[j].state = "ok"
          /\ \E k \in 1..Len(allResults) : allResults[k].image_path = j

\* ---------------------------------------------------------------- C24
\* C24: a malformed row of a results file costs only that row: when the
\* file has a well-formed row and the table has the columns the insert
\* writes, load_yolo_results does not fail and the record of every
\* well-formed row of the file is in raw.image_detections.
C24_MalformedRowIsSkippedAlone ==
    (/\ yoloPc = "done"
     /\ yoloStatus = "success"
     /\ InsertColumns \subseteq tableColumns
     /\ \E i \in 1..Len(csvRows) : ~RowRaises(csvRows[i])) =>
        /\ yoloLoadStatus = "success"
        /\ \A i \in 1..Len(csvRows) :
              ~RowRaises(csvRows[i]) => CsvRecord(csvRows[i]) \in imageDetections

\* ---------------------------------------------------------------- C26
\* C26: every row of raw.image_detections holds, as detected_objects, the
\* detector's list for its image: as many entries, in the same order, each
\* with the label, the confidence and the bounding box of the detection.
C26_StoredDetectionsAreTheDetectorsList ==
    \A r \in imageDetections :
        LET dets == images[r.image_path].dets
        IN  /\ Len(r.detected_objects) = Len(dets)
            /\ \A j \in 1..Len(dets) :
                  /\ r.detected_objects[j].object = dets[j].class_name
                  /\ r.detected_objects[j].confidence = dets[j].confidence
                  /\ "bbox" \in DOMAIN r.detected_objects[j]
                  /\ r.detected_objects[j].bbox = dets[j].bbox

\* ---------------------------------------------------------------- C28
\* C28: whichever of DatabaseInitializer and YOLOResultsLoader created
\* raw.image_detections, a load of the well-formed results file of a
\* successful enrichment succeeds: the table has every column the insert
\* writes and holds the record of every row of the file.
C28_LoadSucceedsWhoeverCreatedTheTable ==
    (/\ yoloPc = "done"
     /\ yoloStatus = "success"
     /\ \A i \in 1..Len(csvRows) : ~RowRaises(csvRows[i])) =>
        /\ yoloLoadStatus = "success"
        /\ InsertColumns \subseteq tableColumns
        /\ \A i \in 1..Len(csvRows) : CsvRecord(csvRows[i]) \in imageDetections

====
